---- MODULE Spec2Model ----
(***************************************************************************)
(* RoutineStreamliner (src/routine_streamliner.hpp): a table of periodic   *)
(* subscriptions ordered by deadline, caller threads that add and remove   *)
(* subscriptions under a mutex, and one worker thread whose tick scans the *)
(* table under the mutex, releases it, hands the collected batch to the    *)
(* merger callback and reprograms its own sleep.                           *)
(*                                                                         *)
(* Time is the reading of std::chrono::steady_clock, in clock units: the   *)
(* clock is monotonic, so every reading is at least the reading before it, *)
(* and a pass starts at a later reading than the one before it.  A pointer *)
(* to a Subscription's data is modelled by the subscription's identifier.  *)
(* The worker's wake-up time is not constrained by the sleep period (the   *)
(* LoopingThread is not part of this repository): it may wake at any later *)
(* clock reading.                                                          *)
(***************************************************************************)
EXTENDS Integers, Sequences, FiniteSets

\* ---------------------------------------------------------------- bounds
MaxTime == 3        \* the clock runs from 0 to MaxTime
MaxAdds == 2        \* add() is called at most MaxAdds times
MaxBatch == 3       \* a scan is followed for at most MaxBatch push_backs

Periods == {-1, 0, 1, 2}     \* the period arguments given to add()
Slacks == {0, 2}             \* the imprecisionPermitted given to the constructor
Callers == {"c1", "c2"}      \* the caller threads
Threads == Callers \cup {"worker"}  \* the threads that call add() and remove()
RemoveIds == 0..MaxAdds      \* the identifiers given to remove()

\* ------------------------------------------------------ program constants
STREAMLINER_WAIT_IF_EMPTY == 500000000

VARIABLES
    now,                  \* the last reading of steady_clock::now(), by any thread
    entries,              \* _entries: sequence of [key, identifier, period], ascending by key
    identifier,           \* the identifier counter
    throttling,           \* _throttling
    lock,                 \* _lock: "none" or the thread holding it
    imprecisionPermitted, \* _imprecisionPermitted
    sleepPeriod,          \* the LoopingThread's period, as last set
    cpc,                  \* per thread: "idle", or the call whose lock_guard it holds
    wpc,                  \* the worker's position in the tick
    start, until,         \* the tick's locals
    merged,               \* the tick's local batch (identifiers stand for the T* pointers)
    it,                   \* the scan's iterator, an index into entries (0: none)
    \* history variables, read by the properties only
    added,                \* the identifiers add() has returned, in order
    removed,              \* the identifiers whose remove() returned normally
    thrown,               \* whether the last remove() ended by throwing std::logic_error
    fired,                \* per element of merged, the table deadline it was taken at
    flagsRead,            \* the values of _throttling the current scan has read
    atScan,               \* the table as it was when the current scan took the lock
    invoked,              \* how often the current pass has called _merger
    stale,                \* identifiers in the batch whose remove() had returned when _merger was called
    fresh                 \* identifiers add() has returned that no finished pass has had in its scan

vars == <<now, entries, identifier, throttling, lock, imprecisionPermitted, sleepPeriod,
          cpc, wpc, start, until, merged, it,
          added, removed, thrown, fired, flagsRead, atScan, invoked, stale, fresh>>

shared == <<entries, identifier, throttling, imprecisionPermitted>>
locals == <<start, until, merged, it>>
history == <<added, removed, thrown, fired, flagsRead, atScan, invoked, stale, fresh>>
passHistory == <<fired, flagsRead, atScan, invoked, stale>>

\* ------------------------------------------------------------ the multimap
\* Number of elements of e whose key is <= k (they form a prefix: e is sorted).
RECURSIVE CountLE(_, _)
CountLE(e, k) ==
    IF e = <<>> \/ Head(e).key > k THEN 0 ELSE 1 + CountLE(Tail(e), k)

\* A faulty insert, as of a std::map: an element whose key is taken is dropped.
InsertUnique(e, rec) ==
    LET n == CountLE(e, rec.key)
    IN  IF \E i \in DOMAIN e : e[i].key = rec.key THEN e
        ELSE SubSeq(e, 1, n) \o <<rec>> \o SubSeq(e, n + 1, Len(e))

\* std::multimap::insert: the new element goes at the upper bound of its key.
Insert(e, rec) ==
    LET n == CountLE(e, rec.key)
    IN  SubSeq(e, 1, n) \o <<rec>> \o SubSeq(e, n + 1, Len(e))

\* std::multimap::erase(iterator)
EraseAt(e, i) == SubSeq(e, 1, i - 1) \o SubSeq(e, i + 1, Len(e))

\* remove()'s loop: the position of the first element with this identifier, 0 if none.
RECURSIVE FindFrom(_, _, _)
FindFrom(e, id, i) ==
    IF i > Len(e) THEN 0
    ELSE IF e[i].identifier = id THEN i
    ELSE FindFrom(e, id, i + 1)

Find(e, id) == FindFrom(e, id, 1)

\* A faulty erase: the table's first element goes, whatever its identifier.
EraseFirstEntry(e, id) == EraseAt(e, 1)

\* remove()'s erase: the table without the element found.
Erase(e, id) == EraseAt(e, Find(e, id))

\* A faulty first deadline: one period after the call.
FirstDeadlineAfterPeriod(t, period) == t + period

\* lines 96 and 110: a new subscription's deadline is the clock reading of the call.
FirstDeadline(t, period) == t

\* A faulty counter: the identifier is not incremented.
KeepIdentifier(i) == i

\* identifier++ (an unsigned int: it wraps after 2^32 calls, far beyond MaxAdds)
NextIdentifier(i) == i + 1

\* ------------------------------------------------------------ the tick
\* Faulty scan tests: a deadline equal to until is left out; the scan never breaks.
DueStrict(key, u) == key < u
DueAlways(key, u) == TRUE

\* line 56: the scan goes on while the smallest deadline is not after until.
Due(key, u) == ~(key > u)

\* lines 62-64: the throttling loop never ends when it cannot raise next.
Diverges(key, period, u, thr) == thr /\ period <= 0 /\ key + period < u

\* lines 62-64, for a period > 0: next += period while next < until.
RECURSIVE Advance(_, _, _)
Advance(next, period, u) ==
    IF next < u THEN Advance(next + period, period, u) ELSE next

\* A faulty reschedule: two periods forward.
NextDeadlineTwice(key, period, u, thr) == key + 2 * period

\* A faulty throttling: a late deadline is moved to until itself.
NextDeadlineAtUntil(key, period, u, thr) ==
    IF thr /\ period > 0 /\ key + period < u THEN u ELSE key + period

\* lines 61-64: the deadline the subscription is reinserted at.
NextDeadline(key, period, u, thr) ==
    IF thr /\ period > 0 THEN Advance(key + period, period, u) ELSE key + period

\* A faulty call: the merger is called whatever the batch.
AfterScanAlways(m) == "call"

\* A faulty scope: the lock_guard is still held after the loop.
HeldLock == "worker"

\* line 68: the lock_guard's scope ends before the merger is called.
ReleasedLock == "none"

\* A faulty call: the merger is never called.
AfterScanNever(m) == "reprogram"

\* lines 69-70: the merger is called only for a non-empty batch.
AfterScan(m) == IF m # <<>> THEN "call" ELSE "reprogram"

\* The identifiers of the registrations of a table.
Ids(e) == {e[i].identifier : i \in DOMAIN e}

\* ------------------------------------------------------------ initial state
Init ==
    /\ now = 0
    /\ entries = <<>>
    /\ identifier = 0
    /\ throttling \in BOOLEAN
    /\ lock = "none"
    /\ imprecisionPermitted \in Slacks
    /\ sleepPeriod = STREAMLINER_WAIT_IF_EMPTY
    /\ cpc = [c \in Threads |-> "idle"]
    /\ wpc = "sleep"
    /\ start = 0 /\ until = 0 /\ merged = <<>> /\ it = 0
    /\ added = <<>> /\ removed = {} /\ thrown = FALSE
    /\ fired = <<>> /\ flagsRead = {} /\ atScan = <<>> /\ invoked = 0 /\ stale = {}
    /\ fresh = {}

\* ------------------------------------------------------------ caller threads
\* add(), line 95 (and 109): the lock_guard is taken.  The worker thread calls
\* add() only from inside the merger (line 70).
addLock(c) ==
    /\ cpc[c] = "idle"
    /\ c = "worker" => wpc = "merger"
    /\ lock = "none"
    /\ Len(added) < MaxAdds
    /\ lock' = c
    /\ cpc' = [cpc EXCEPT ![c] = "add"]
    /\ UNCHANGED <<now, shared, sleepPeriod, wpc, locals, history>>

\* add(data, period), lines 96-98 (and 110-112): insert at now(), return identifier++, unlock.
add(c, period, t) ==
    /\ cpc[c] = "add"
    /\ now' = t
    /\ entries' = Insert(entries, [key |-> FirstDeadline(t, period),
                                    identifier |-> identifier, period |-> period])
    /\ identifier' = NextIdentifier(identifier)
    /\ added' = Append(added, identifier)
    /\ fresh' = fresh \cup {identifier}
    /\ lock' = "none"
    /\ cpc' = [cpc EXCEPT ![c] = "idle"]
    /\ UNCHANGED <<throttling, imprecisionPermitted, sleepPeriod, wpc, locals,
                   removed, thrown, passHistory>>

\* remove(), line 121: the lock_guard is taken.  The worker thread calls
\* remove() only from inside the merger (line 70).
removeLock(c) ==
    /\ cpc[c] = "idle"
    /\ c = "worker" => wpc = "merger"
    /\ lock = "none"
    /\ lock' = c
    /\ cpc' = [cpc EXCEPT ![c] = "remove"]
    /\ UNCHANGED <<now, shared, sleepPeriod, wpc, locals, history>>

\* remove(id), lines 122-129: erase the first match and return, or throw; unlock.
remove(c, id) ==
    /\ cpc[c] = "remove"
    /\ IF Find(entries, id) # 0
       THEN /\ entries' = Erase(entries, id)
            /\ removed' = removed \cup {id}
            /\ thrown' = FALSE
       ELSE /\ thrown' = TRUE
            /\ UNCHANGED <<entries, removed>>
    /\ lock' = "none"
    /\ cpc' = [cpc EXCEPT ![c] = "idle"]
    /\ UNCHANGED <<now, identifier, throttling, imprecisionPermitted, sleepPeriod, wpc,
                   locals, added, passHistory, fresh>>

\* setThrottling(), lines 136-138: written without the lock.
setThrottling(b) ==
    /\ throttling' = b
    /\ UNCHANGED <<now, entries, identifier, imprecisionPermitted, lock, sleepPeriod,
                   cpc, wpc, locals, history>>

\* ------------------------------------------------------------ worker thread
\* The LoopingThread's sleep ends (some time has passed); lines 49-52.
WakeUp(t) ==
    /\ wpc = "sleep"
    /\ now' = t
    /\ start' = t
    /\ until' = t + imprecisionPermitted
    /\ merged' = <<>>
    /\ wpc' = "lock"
    /\ UNCHANGED <<shared, lock, sleepPeriod, cpc, it, history>>

\* line 54 and the loop's initialisation, line 55.
AcquireLock ==
    /\ wpc = "lock"
    /\ lock = "none"
    /\ lock' = "worker"
    /\ it' = 1
    /\ atScan' = entries
    /\ wpc' = "scan"
    /\ UNCHANGED <<now, shared, sleepPeriod, cpc, start, until, merged,
                   added, removed, thrown, fired, flagsRead, invoked, stale, fresh>>

\* One iteration of the loop, lines 56-66, for a batch of fewer than cap elements.
ScanUpTo(cap) ==
    /\ wpc = "scan"
    /\ it <= Len(entries)
    /\ Due(entries[it].key, until)
    /\ Len(merged) < cap
    /\ LET contents == entries[it]
           next == NextDeadline(contents.key, contents.period, until, throttling)
       IN  /\ merged' = Append(merged, contents.identifier)
           /\ fired' = Append(fired, contents.key)
           /\ flagsRead' = flagsRead \cup {throttling}
           /\ IF Diverges(contents.key, contents.period, until, throttling)
              THEN /\ wpc' = "spin"
                   /\ UNCHANGED <<entries, it>>
              ELSE /\ entries' = Insert(EraseAt(entries, it), [contents EXCEPT !.key = next])
                   /\ it' = IF next < contents.key THEN it + 1 ELSE it
                   /\ wpc' = "scan"
    /\ UNCHANGED <<now, identifier, throttling, imprecisionPermitted, lock, sleepPeriod,
                   cpc, start, until, added, removed, thrown, atScan, invoked, stale, fresh>>

\* One iteration of the loop, followed for at most MaxBatch push_backs.
ScanStep == ScanUpTo(MaxBatch)

\* The loop ends (line 55 or the break of line 56) and the lock_guard's scope, line 68.
ScanEnd ==
    /\ wpc = "scan"
    /\ IF it > Len(entries) THEN TRUE ELSE ~Due(entries[it].key, until)
    /\ lock' = ReleasedLock
    /\ it' = 0
    /\ wpc' = AfterScan(merged)
    /\ UNCHANGED <<now, shared, sleepPeriod, cpc, start, until, merged, history>>

\* line 70: _merger(merged) is called.
MergerCall ==
    /\ wpc = "call"
    /\ invoked' = invoked + 1
    /\ stale' = {merged[i] : i \in 1..Len(merged)} \cap removed
    /\ wpc' = "merger"
    /\ UNCHANGED <<now, shared, lock, sleepPeriod, cpc, locals,
                   added, removed, thrown, fired, flagsRead, atScan, fresh>>

\* line 70: _merger(merged) returns, any add() or remove() it called having returned.
MergerReturn ==
    /\ wpc = "merger"
    /\ cpc["worker"] = "idle"
    /\ wpc' = "reprogram"
    /\ UNCHANGED <<now, shared, lock, sleepPeriod, cpc, locals, history>>

\* lines 72-76: the table is read without the lock; the tick's locals end.
Reprogram ==
    /\ wpc = "reprogram"
    /\ sleepPeriod' = IF entries # <<>> THEN entries[1].key - start ELSE sleepPeriod
    /\ start' = 0 /\ until' = 0 /\ merged' = <<>>
    /\ fired' = <<>> /\ flagsRead' = {} /\ atScan' = <<>> /\ invoked' = 0 /\ stale' = {}
    /\ fresh' = fresh \ Ids(atScan)
    /\ wpc' = "sleep"
    /\ UNCHANGED <<now, shared, lock, cpc, it, added, removed, thrown>>

Next ==
    \/ \E c \in Threads : addLock(c)
    \/ \E c \in Threads, p \in Periods, t \in now..MaxTime : add(c, p, t)
    \/ \E c \in Threads : removeLock(c)
    \/ \E c \in Threads, id \in RemoveIds : remove(c, id)
    \/ \E b \in BOOLEAN : setThrottling(b)
    \/ \E t \in (now + 1)..MaxTime : WakeUp(t)
    \/ AcquireLock
    \/ ScanStep
    \/ ScanEnd
    \/ MergerCall
    \/ MergerReturn
    \/ Reprogram

Spec == Init /\ [][Next]_vars

\* ------------------------------------------------ unbounded running time
\* The program compares time points and subtracts them, and does nothing else
\* with them: its behaviour is the same when every time point is moved by the
\* same amount.  For behaviours that never end, time points are kept relative
\* to the last clock reading (now stays 0): when a reading finds that d clock
\* units have passed since the reading before it, every stored time point
\* moves back by d.  Periods are positive, so a scan ends by itself.
LivePeriods == {1, 2}        \* the period arguments given to add()
LiveElapse == {1, 2}         \* the clock units that pass while the worker sleeps
LiveAddElapse == {0}         \* the clock units between add()'s reading and the one before:
                             \* time passes while the worker sleeps

Elapse(e, d) == [i \in DOMAIN e |-> [e[i] EXCEPT !.key = @ - d]]

\* add(data, period), lines 96-98, d clock units after the last clock reading.
LiveAdd(c, period, d) ==
    /\ cpc[c] = "add"
    /\ entries' = Insert(Elapse(entries, d),
                         [key |-> FirstDeadline(now, period),
                          identifier |-> identifier, period |-> period])
    /\ start' = start - d
    /\ until' = until - d
    /\ atScan' = Elapse(atScan, d)
    /\ fired' = [i \in DOMAIN fired |-> fired[i] - d]
    /\ identifier' = NextIdentifier(identifier)
    /\ added' = Append(added, identifier)
    /\ fresh' = fresh \cup {identifier}
    /\ lock' = "none"
    /\ cpc' = [cpc EXCEPT ![c] = "idle"]
    /\ UNCHANGED <<now, throttling, imprecisionPermitted, sleepPeriod, wpc, merged, it,
                   removed, thrown, flagsRead, invoked, stale>>

\* The LoopingThread's sleep ends d clock units after the last clock reading; lines 49-52.
LiveWakeUp(d) ==
    /\ wpc = "sleep"
    /\ entries' = Elapse(entries, d)
    /\ start' = now
    /\ until' = now + imprecisionPermitted
    /\ merged' = <<>>
    /\ wpc' = "lock"
    /\ UNCHANGED <<now, identifier, throttling, imprecisionPermitted, lock, sleepPeriod,
                   cpc, it, history>>

\* One iteration of the loop, lines 56-66, with no limit on the batch.
LiveScanStep == ScanUpTo(Len(merged) + 1)

LiveNext ==
    \/ \E c \in Threads : addLock(c)
    \/ \E c \in Threads, p \in LivePeriods, d \in LiveAddElapse : LiveAdd(c, p, d)
    \/ \E c \in Threads : removeLock(c)
    \/ \E c \in Threads, id \in RemoveIds : remove(c, id)
    \/ \E b \in BOOLEAN : setThrottling(b)
    \/ \E d \in LiveElapse : LiveWakeUp(d)
    \/ AcquireLock
    \/ LiveScanStep
    \/ ScanEnd
    \/ MergerCall
    \/ MergerReturn
    \/ Reprogram

\* The worker is scheduled: its sleep ends, it gets the lock it waits for, and
\* each step of the tick is taken; the merger returns; a thread inside add() or
\* remove() runs to the call's return.
LiveFairness ==
    /\ WF_vars(\E d \in LiveElapse : LiveWakeUp(d))
    /\ SF_vars(AcquireLock)
    /\ WF_vars(LiveScanStep)
    /\ WF_vars(ScanEnd)
    /\ WF_vars(MergerCall)
    /\ SF_vars(MergerReturn)
    /\ WF_vars(Reprogram)
    /\ \A c \in Threads :
          /\ WF_vars(\E p \in LivePeriods, d \in LiveAddElapse : LiveAdd(c, p, d))
          /\ WF_vars(\E id \in RemoveIds : remove(c, id))

LiveSpec == Init /\ [][LiveNext]_vars /\ LiveFairness

\* ------------------------------------------------------------ properties
Batch == {merged[i] : i \in DOMAIN merged}
Count(seq, x) == Cardinality({i \in DOMAIN seq : seq[i] = x})
KeyOf(e, id) == e[Find(e, id)].key
ScanDone == wpc \in {"call", "merger", "reprogram"}

\* C1 (as claimed): once remove(id) has returned, no later call of the merger
\* receives that item: the batch given to the merger holds no removed identifier.
C1_RemovedNeverDelivered == stale = {}

\* C2 (as claimed): every registration put into the batch was taken at a table
\* deadline that is not after the pass's start.
C2_NotBeforeDeadline == \A i \in DOMAIN fired : fired[i] <= start

\* C2 (amended): every registration put into the batch was taken at a table
\* deadline that is not after until = start + slack, so it is fired at most
\* slack before its deadline.
C2_NotBeforeDeadlineLessSlack ==
    \A i \in DOMAIN fired : fired[i] <= start + imprecisionPermitted

C2_Witness == wpc = "merger" /\ \E i \in DOMAIN fired : fired[i] > start

\* C3 (as claimed): two registrations whose deadlines d1 <= d2 at the scan are at
\* most slack apart are delivered together: the call that delivers the first
\* delivers the second.
C3_WithinSlackTogether ==
    wpc = "merger" =>
        \A i, j \in DOMAIN atScan :
            (/\ atScan[i].key <= atScan[j].key
             /\ atScan[j].key - atScan[i].key <= imprecisionPermitted
             /\ atScan[i].identifier \in Batch)
            => atScan[j].identifier \in Batch

\* C3 (amended): the same, for a pass that starts no earlier than d1 (then d2 is
\* not after until = start + slack, the window the scan collects).
C3_WithinWindowTogether ==
    wpc = "merger" =>
        \A i, j \in DOMAIN atScan :
            (/\ atScan[i].key <= atScan[j].key
             /\ atScan[j].key - atScan[i].key <= imprecisionPermitted
             /\ atScan[i].key <= start
             /\ atScan[i].identifier \in Batch)
            => atScan[j].identifier \in Batch

C3_Witness ==
    /\ wpc = "merger"
    /\ \E i, j \in DOMAIN atScan :
          /\ atScan[i].key < atScan[j].key
          /\ atScan[j].key - atScan[i].key <= imprecisionPermitted
          /\ atScan[i].key <= start
          /\ atScan[j].key > start
          /\ atScan[i].identifier \in Batch
          /\ atScan[j].identifier \in Batch

\* C4 (as claimed): two registrations whose deadlines at the scan are more than
\* slack apart are never delivered by the same call of the merger.
C4_FarApartSeparate ==
    wpc = "merger" =>
        \A i, j \in DOMAIN atScan :
            atScan[j].key - atScan[i].key > imprecisionPermitted
            => ~(atScan[i].identifier \in Batch /\ atScan[j].identifier \in Batch)

\* C5 (as claimed): in a pass that read throttling as enabled, a registration with
\* a positive period is put into the batch at most once.
C5_ThrottledOncePerPass ==
    flagsRead \subseteq {TRUE} =>
        \A i \in DOMAIN atScan :
            atScan[i].period > 0 => Count(merged, atScan[i].identifier) <= 1

\* C6 (as claimed): after a pass that read throttling as disabled, a delivered
\* registration's deadline is its deadline before the pass plus one period, and
\* the batch holds it once.
C6_OnePeriodPerPass ==
    (ScanDone /\ flagsRead \subseteq {FALSE}) =>
        \A i \in DOMAIN atScan :
            LET r == atScan[i] IN
            (r.identifier \in Batch /\ r.identifier \in Ids(entries)) =>
                /\ KeyOf(entries, r.identifier) = r.key + r.period
                /\ Count(merged, r.identifier) = 1

\* C6 (amended): after a pass that read throttling as disabled, a registration's
\* deadline is its deadline before the pass plus one period for each time the
\* batch holds it; each of those times its deadline was still <= until, and
\* with a positive period it is left after until.
C6_OnePeriodPerDelivery ==
    (ScanDone /\ flagsRead \subseteq {FALSE}) =>
        \A i \in DOMAIN atScan :
            LET r == atScan[i]
                k == Count(merged, r.identifier)
            IN  r.identifier \in Ids(entries) =>
                /\ KeyOf(entries, r.identifier) = r.key + k * r.period
                /\ \A n \in 0..(k - 1) : r.key + n * r.period <= until
                /\ (r.key <= until) => k >= 1
                /\ r.period > 0 => KeyOf(entries, r.identifier) > until

C6_Witness ==
    /\ wpc = "merger"
    /\ flagsRead = {FALSE}
    /\ \E i \in DOMAIN atScan :
          /\ atScan[i].identifier \in Ids(entries)
          /\ Count(merged, atScan[i].identifier) = 2

\* C7: the identifiers returned by add() are pairwise distinct, also across
\* remove() calls in between.
C7_IdentifiersDistinct ==
    \A i, j \in DOMAIN added : i # j => added[i] # added[j]

C7_Witness == Len(added) >= 2 /\ added[1] \in removed

\* C8: remove(id) with an id that is not in the table throws and leaves the table
\* and the identifier counter unchanged; with an id that is in the table it
\* returns and the table loses exactly that registration, every other one
\* keeping its place and deadline.
C8_Remove ==
    [][\A c \in Threads, id \in RemoveIds :
          remove(c, id) =>
            IF id \in Ids(entries)
            THEN /\ ~thrown'
                 /\ entries' = SelectSeq(entries, LAMBDA r : r.identifier # id)
                 /\ Len(entries') = Len(entries) - 1
                 /\ identifier' = identifier
            ELSE /\ thrown'
                 /\ entries' = entries
                 /\ identifier' = identifier]_vars

C8_Witness == thrown /\ removed # {} /\ Len(entries) >= 1

\* C9: the merger is only ever called with a non-empty batch, at most once in a
\* pass, and not at all in a pass whose scan found nothing due.
C9_NoEmptyCallback ==
    /\ wpc \in {"call", "merger"} => merged # <<>>
    /\ invoked <= 1
    /\ (ScanDone /\ merged = <<>>) => (wpc = "reprogram" /\ invoked = 0)

C9_Witness == wpc = "reprogram" /\ merged = <<>> /\ atScan # <<>>

\* C10 (as claimed): a pass whose scan meets a registration with a zero or
\* negative period finishes the scan: the worker never stays in the loop of
\* lines 62-64 with the lock held.
C10_NonPositivePeriodScanEnds == wpc # "spin"

\* C11 (as claimed): every reschedule of one pass is computed with one and the
\* same value of _throttling: a scan never reads both values.
C11_OneThrottlingValuePerPass == Cardinality(flagsRead) <= 1

\* C12: with positive periods, a scheduled worker and a merger that returns, a
\* registration in the table is delivered again later unless it is removed:
\* one that is never removed is delivered infinitely often.
C12_DeliveredInfinitelyOften ==
    \A id \in RemoveIds :
        (id \in Ids(entries)) ~> (id \in removed \/ (wpc = "merger" /\ id \in Batch))

C12_Witness ==
    /\ wpc = "merger"
    /\ \E id \in Batch : id \notin fresh /\ id \notin removed

C14_MergerWithoutLock ==
    wpc \in {"call", "merger"} =>
        /\ cpc["worker"] = "idle" => lock # "worker"
        /\ lock # "none" => cpc[lock] \in {"add", "remove"}

C14_Witness ==
    /\ wpc = "merger"
    /\ lock = "worker"
    /\ cpc["worker"] = "remove"
    /\ cpc["c1"] = "idle" /\ cpc["c2"] = "idle"

\* C15 (as claimed): the tick never reads the table while a caller thread is
\* inside add() or remove() with the lock: the step of lines 72-75 is not
\* taken while a caller holds the lock.
C15_TableReadLocked ==
    [][(wpc = "reprogram" /\ wpc' = "sleep") => lock \notin Callers]_vars

\* C16 (as claimed): while the merger runs, every registration its batch points
\* to is still owned by the table: none has been erased by remove().
C16_BatchAlive == wpc = "merger" => Batch \cap removed = {}

\* C17 (as claimed): the step of lines 72-75 leaves the sleep period at the
\* wait-if-empty fallback when the table is empty, and at (smallest remaining
\* deadline) - start when it is not.
C17_SleepPeriodReprogrammed ==
    [][(wpc = "reprogram" /\ wpc' = "sleep") =>
          sleepPeriod' = IF entries = <<>> THEN STREAMLINER_WAIT_IF_EMPTY
                         ELSE entries[1].key - start]_vars

\* C18: after a pass that read throttling as enabled, a delivered registration
\* with a positive period has a deadline >= until, later than its deadline
\* before the pass by a whole positive multiple of its period.
C18_ThrottledPastUntil ==
    (ScanDone /\ flagsRead \subseteq {TRUE}) =>
        \A i \in DOMAIN atScan :
            LET r == atScan[i] IN
            (r.period > 0 /\ r.identifier \in Batch /\ r.identifier \in Ids(entries)) =>
                LET k == KeyOf(entries, r.identifier) IN
                /\ k >= until
                /\ k > r.key
                /\ (k - r.key) % r.period = 0

C18_Witness ==
    /\ wpc = "merger"
    /\ flagsRead = {TRUE}
    /\ \E i \in DOMAIN atScan :
          /\ atScan[i].period = 2
          /\ atScan[i].identifier \in Batch
          /\ Count(merged, atScan[i].identifier) = 1
          /\ atScan[i].identifier \in Ids(entries)
          /\ KeyOf(entries, atScan[i].identifier) >= atScan[i].key + 4

\* C19: whenever the lock is free, the table holds exactly the registrations
\* added and not removed, each once; and a scan changes no registration of the
\* table, only deadlines.
C19_LiveOnceInTable ==
    /\ lock = "none" =>
          /\ Ids(entries) = {added[i] : i \in DOMAIN added} \ removed
          /\ Cardinality(Ids(entries)) = Len(entries)
    /\ wpc \in {"scan", "spin"} =>
          /\ Len(entries) = Len(atScan)
          /\ \A i \in DOMAIN atScan :
                \E j \in DOMAIN entries :
                    /\ entries[j].identifier = atScan[i].identifier
                    /\ entries[j].period = atScan[i].period

C19_Witness ==
    /\ wpc = "call" /\ lock = "none"
    /\ removed # {}
    /\ \E i \in DOMAIN atScan :
          /\ atScan[i].identifier \in Batch
          /\ atScan[i].identifier \in Ids(entries)
          /\ KeyOf(entries, atScan[i].identifier) # atScan[i].key

\* C20: when all periods are positive, after the scan every registration that
\* was in the table at the scan has a deadline > until, and the batch holds
\* exactly the registrations whose deadline was <= until when the scan began.
C20_AllPastUntilAfterScan ==
    (ScanDone /\ \A i \in DOMAIN atScan : atScan[i].period > 0) =>
        /\ \A j \in DOMAIN entries :
              entries[j].identifier \in Ids(atScan) => entries[j].key > until
        /\ Batch = {atScan[i].identifier : i \in {n \in DOMAIN atScan : atScan[n].key <= until}}

C20_Witness ==
    /\ wpc = "call"
    /\ Len(atScan) = 2
    /\ \A i \in DOMAIN atScan : atScan[i].period > 0
    /\ Cardinality(Batch) = 1
    /\ Len(merged) = 2

====
